---- MODULE Spec2Model ----
(***************************************************************************)
(* Authentication and session core of teg-finance (backend/auth.py,        *)
(* backend/database.py, the /api/auth routes of backend/main.py).          *)
(*                                                                         *)
(* The database is the shared state (the users and sessions tables).  A    *)
(* request is a thread of a handler: every SQL statement of the handler is *)
(* one atomic step (db.execute opens a connection, runs one statement and  *)
(* commits), and the Python between two statements belongs to the step of  *)
(* the statement before it.  Time is in seconds.  A nullable column or an  *)
(* optional input is None (<<>>) or Some(v) (<<v>>).                       *)
(***************************************************************************)
EXTENDS Integers, Sequences, FiniteSets, TLC

VARIABLES
    now,        \* the clock read by datetime.now(timezone.utc) / CURRENT_TIMESTAMP
    users,      \* the users table: account id -> row
    sessions,   \* the sessions table: a set of rows
    issued,     \* how many session tokens, reset tokens and TOTP secrets were generated
    outbox,     \* reset e-mails handed to send_password_reset_email
    req,        \* the requests in flight: slot -> handler position and locals
    history     \* what happened: per account the wrong-password logins in a row
                \* (streak), the reset tokens a reset has consumed (redeemed), and
                \* per account the second-factor codes refused, counted up to
                \* MAX_LOGIN_ATTEMPTS (badcodes), and the accounts for which
                \* authenticate_user has returned requires_2fa since their second
                \* factor was last turned off (awaiting)

vars == <<now, users, sessions, issued, outbox, req, history>>

-----------------------------------------------------------------------------
(* Bounds of the model *)

MaxTicks == 1          \* clock advances per behaviour
MaxSessions == 2       \* sessions created per behaviour
MaxResetTokens == 2    \* reset tokens issued per behaviour
MaxSecrets == 2        \* TOTP secrets generated per behaviour

(* backend/config.py *)
PASSWORD_MIN_LENGTH == 8
MAX_LOGIN_ATTEMPTS == 5
LOCKOUT_DURATION == 30 * 60
PASSWORD_RESET_EXPIRY == 60 * 60
SESSION_LIFETIME == 24 * 60 * 60
\* pyotp.TOTP's default interval, used by verify_totp
TOTP_INTERVAL == 30

None == <<>>
Some(v) == <<v>>

Users == {"admin", "editor"}
Reqs == {"r1", "r2"}

\* The accounts' rows as the deployment seeded them.
InitialPassword == [u \in Users |-> IF u = "admin" THEN "ChangeThisPassword123!"
                                                     ELSE "editor-passphrase"]
EmailOf == [u \in Users |-> IF u = "admin" THEN "admin@example.com"
                                             ELSE "editor@example.com"]

-----------------------------------------------------------------------------
(* auth.py: pure helpers *)

\* bcrypt.hashpw: the salt is dropped, the hash is a tagged one-way image.
hash_password(password) == <<"$2b$", password>>

verify_password(password, password_hash) ==
    /\ Len(password_hash) = 2
    /\ password_hash[1] = "$2b$"
    /\ password_hash[2] = password

\* pyotp.TOTP(secret).at(for_time, counter_offset): the code of one time step.
timecode(t) == t \div TOTP_INTERVAL
TotpAt(secret, t, offset) == <<secret, timecode(t) + offset>>

\* verify_totp with pyotp's default valid_window = 0
verify_totp_no_window(secret, code, t) ==
    IF secret = None \/ code = None
    THEN FALSE
    ELSE code[1] = TotpAt(secret[1], t, 0)

\* auth.py 44-48: totp.verify(code, valid_window=1) compares the code with
\* at(now, i) for i in -1, 0, 1
verify_totp(secret, code, t) ==
    IF secret = None \/ code = None
    THEN FALSE
    ELSE \E i \in -1..1 : code[1] = TotpAt(secret[1], t, i)

\* is_account_locked with <= for <
is_account_locked_inclusive(user, t) ==
    IF user.locked_until = None
    THEN FALSE
    ELSE t <= user.locked_until[1]

is_account_locked(user, t) ==
    IF user.locked_until = None
    THEN FALSE
    ELSE t < user.locked_until[1]

\* authenticate_user with the password verified before the lock is looked at
authenticate_user_verify_first(user, password, t) ==
    IF user = None
    THEN [next |-> "return", verified |-> FALSE,
          result |-> [error |-> "Invalid username or password"]]
    ELSE IF ~verify_password(password, user[1].password_hash)
    THEN IF is_account_locked(user[1], t)
         THEN [next |-> "return", verified |-> TRUE,
               result |-> [error |-> "Account is temporarily locked. Please try again later."]]
         ELSE [next |-> "update", verified |-> TRUE, result |-> [error |-> ""]]
    ELSE IF user[1].totp_enabled
    THEN [next |-> "return", verified |-> TRUE,
          result |-> [requires_2fa |-> TRUE, user_id |-> user[1].id]]
    ELSE [next |-> "reset", verified |-> TRUE, result |-> [user |-> user[1]]]

\* authenticate_user without the branch on totp_enabled
authenticate_user_no_2fa(user, password, t) ==
    IF user = None
    THEN [next |-> "return", verified |-> FALSE,
          result |-> [error |-> "Invalid username or password"]]
    ELSE IF is_account_locked(user[1], t)
    THEN [next |-> "return", verified |-> FALSE,
          result |-> [error |-> "Account is temporarily locked. Please try again later."]]
    ELSE IF ~verify_password(password, user[1].password_hash)
    THEN [next |-> "update", verified |-> TRUE, result |-> [error |-> ""]]
    ELSE [next |-> "reset", verified |-> TRUE, result |-> [user |-> user[1]]]

\* auth.py 83-118 up to its first write: what authenticate_user decides from the row
\* it read.  next is the statement it runs then ("update" the failed attempt,
\* "reset" the counter) or "return"; verified says whether verify_password ran.
authenticate_user(user, password, t) ==
    IF user = None
    THEN [next |-> "return", verified |-> FALSE,
          result |-> [error |-> "Invalid username or password"]]
    ELSE IF is_account_locked(user[1], t)
    THEN [next |-> "return", verified |-> FALSE,
          result |-> [error |-> "Account is temporarily locked. Please try again later."]]
    ELSE IF ~verify_password(password, user[1].password_hash)
    THEN [next |-> "update", verified |-> TRUE, result |-> [error |-> ""]]
    ELSE IF user[1].totp_enabled
    THEN [next |-> "return", verified |-> TRUE,
          result |-> [requires_2fa |-> TRUE, user_id |-> user[1].id]]
    ELSE [next |-> "reset", verified |-> TRUE, result |-> [user |-> user[1]]]

\* failed_attempt locking one attempt late (> for >=)
failed_attempt_late(user, t) ==
    LET attempts == user.failed_login_attempts + 1
    IN  IF attempts > MAX_LOGIN_ATTEMPTS
        THEN [attempts |-> attempts, locked_until |-> Some(t + LOCKOUT_DURATION),
              result |-> [error |-> "Account locked due to too many failed attempts."]]
        ELSE [attempts |-> attempts, locked_until |-> None,
              result |-> [error |-> "Invalid username or password. "
                                    \o ToString(MAX_LOGIN_ATTEMPTS - attempts)
                                    \o " attempts remaining."]]

\* failed_attempt reporting the attempts that remained before this one
failed_attempt_stale_remaining(user, t) ==
    LET attempts == user.failed_login_attempts + 1
    IN  IF attempts >= MAX_LOGIN_ATTEMPTS
        THEN [attempts |-> attempts, locked_until |-> Some(t + LOCKOUT_DURATION),
              result |-> [error |-> "Account locked due to too many failed attempts."]]
        ELSE [attempts |-> attempts, locked_until |-> None,
              result |-> [error |-> "Invalid username or password. "
                                    \o ToString(MAX_LOGIN_ATTEMPTS - user.failed_login_attempts)
                                    \o " attempts remaining."]]

\* failed_attempt counting from zero again once a lock has expired
failed_attempt_restart(user, t) ==
    LET attempts == IF user.locked_until # None /\ t >= user.locked_until[1]
                    THEN 1 ELSE user.failed_login_attempts + 1
    IN  IF attempts >= MAX_LOGIN_ATTEMPTS
        THEN [attempts |-> attempts, locked_until |-> Some(t + LOCKOUT_DURATION),
              result |-> [error |-> "Account locked due to too many failed attempts."]]
        ELSE [attempts |-> attempts, locked_until |-> None,
              result |-> [error |-> "Invalid username or password. "
                                    \o ToString(MAX_LOGIN_ATTEMPTS - attempts)
                                    \o " attempts remaining."]]

\* auth.py 95-106: the failed attempt's write and result
failed_attempt(user, t) ==
    LET attempts == user.failed_login_attempts + 1
    IN  IF attempts >= MAX_LOGIN_ATTEMPTS
        THEN [attempts |-> attempts, locked_until |-> Some(t + LOCKOUT_DURATION),
              result |-> [error |-> "Account locked due to too many failed attempts."]]
        ELSE [attempts |-> attempts, locked_until |-> None,
              result |-> [error |-> "Invalid username or password. "
                                    \o ToString(MAX_LOGIN_ATTEMPTS - attempts)
                                    \o " attempts remaining."]]

-----------------------------------------------------------------------------
(* database.py: queries *)

Lookup(S) == IF S = {} THEN None ELSE Some(users[CHOOSE u \in S : TRUE])

get_user_by_username(username) ==
    Lookup({u \in Users : users[u].username = username /\ users[u].is_active})

get_user_by_email(email) ==
    Lookup({u \in Users : users[u].email = email /\ users[u].is_active})

get_user_by_id(user_id) ==
    Lookup({u \in Users : users[u].id = user_id /\ users[u].is_active})

get_user_by_reset_token(token) ==
    Lookup({u \in Users : /\ users[u].password_reset_token = Some(token)
                          /\ users[u].password_reset_expires # None
                          /\ users[u].password_reset_expires[1] > now
                          /\ users[u].is_active})

\* get_session_by_token without the expires_at condition
get_session_by_token_no_expiry(token) ==
    LET S == {s \in sessions : /\ s.session_token = token
                               /\ s.user_id \in Users
                               /\ users[s.user_id].is_active}
    IN  IF S = {} THEN None
        ELSE LET s == CHOOSE x \in S : TRUE
             IN  Some([id |-> s.id, user_id |-> s.user_id,
                       session_token |-> s.session_token,
                       expires_at |-> s.expires_at, last_activity |-> s.last_activity,
                       username |-> users[s.user_id].username,
                       email |-> users[s.user_id].email,
                       totp_enabled |-> users[s.user_id].totp_enabled])

get_session_by_token(token) ==
    LET S == {s \in sessions : /\ s.session_token = token
                               /\ s.expires_at > now
                               /\ s.user_id \in Users
                               /\ users[s.user_id].is_active}
    IN  IF S = {} THEN None
        ELSE LET s == CHOOSE x \in S : TRUE
             IN  Some([id |-> s.id, user_id |-> s.user_id,
                       session_token |-> s.session_token,
                       expires_at |-> s.expires_at, last_activity |-> s.last_activity,
                       username |-> users[s.user_id].username,
                       email |-> users[s.user_id].email,
                       totp_enabled |-> users[s.user_id].totp_enabled])

(* database.py: statements, as the table they leave *)

\* update_user_login_attempts never clearing a lock: COALESCE(new, locked_until)
update_user_login_attempts_keep_lock(user_id, attempts, locked_until) ==
    [users EXCEPT ![user_id].failed_login_attempts = attempts,
                  ![user_id].locked_until = IF locked_until = None THEN @ ELSE locked_until]

update_user_login_attempts(user_id, attempts, locked_until) ==
    [users EXCEPT ![user_id].failed_login_attempts = attempts,
                  ![user_id].locked_until = locked_until]

\* reset_user_login_attempts leaving locked_until
reset_user_login_attempts_counter_only(user_id) ==
    [users EXCEPT ![user_id].failed_login_attempts = 0]

reset_user_login_attempts(user_id) ==
    [users EXCEPT ![user_id].failed_login_attempts = 0,
                  ![user_id].locked_until = None]

\* update_user_password leaving the reset token in place
update_user_password_keep_token(user_id, password_hash) ==
    [users EXCEPT ![user_id].password_hash = password_hash]

update_user_password(user_id, password_hash) ==
    [users EXCEPT ![user_id].password_hash = password_hash,
                  ![user_id].password_reset_token = None,
                  ![user_id].password_reset_expires = None]

\* set_password_reset_token keeping a token that is already stored
set_password_reset_token_keep_first(user_id, token, expires) ==
    IF users[user_id].password_reset_token = None
    THEN [users EXCEPT ![user_id].password_reset_token = Some(token),
                       ![user_id].password_reset_expires = Some(expires)]
    ELSE users

set_password_reset_token(user_id, token, expires) ==
    [users EXCEPT ![user_id].password_reset_token = Some(token),
                  ![user_id].password_reset_expires = Some(expires)]

\* update_user_totp storing the secret and never the flag
update_user_totp_secret_only(user_id, secret, enabled) ==
    [users EXCEPT ![user_id].totp_secret = secret]

update_user_totp(user_id, secret, enabled) ==
    [users EXCEPT ![user_id].totp_secret = secret,
                  ![user_id].totp_enabled = enabled]

create_session(user_id, session_token, expires_at) ==
    sessions \cup {[id |-> session_token, user_id |-> user_id,
                    session_token |-> session_token,
                    expires_at |-> expires_at, last_activity |-> now]}

\* update_session_activity renewing the session: a sliding expiry
update_session_activity_sliding(session_id) ==
    {IF s.id = session_id
     THEN [s EXCEPT !.last_activity = now, !.expires_at = now + SESSION_LIFETIME]
     ELSE s : s \in sessions}

update_session_activity(session_id) ==
    {IF s.id = session_id THEN [s EXCEPT !.last_activity = now] ELSE s : s \in sessions}

delete_session(token) == {s \in sessions : s.session_token # token}

\* delete_user_sessions deleting only what clean_expired_sessions would
delete_user_sessions_expired_only(user_id) ==
    {s \in sessions : ~(s.user_id = user_id /\ s.expires_at < now)}

\* delete_user_sessions without its WHERE clause
delete_user_sessions_everyone(user_id) == {}

delete_user_sessions(user_id) == {s \in sessions : s.user_id # user_id}

-----------------------------------------------------------------------------
(* Requests *)

Idle == [pc |-> "idle", op |-> "none", username |-> None, password |-> None,
         token |-> None, code |-> None, user |-> None, at |-> 0,
         session |-> None, verified |-> FALSE, overlap |-> {}, mark |-> 0,
         resp |-> None]

Free(r) == req[r].pc \in {"idle", "done"}

\* json_response(data, status)
Response(status, body) == [status |-> status, body |-> body]
Error(status, message) == Response(status, [error |-> message])

\* the handler returns resp
Done(r, rec, resp) ==
    req' = [req EXCEPT ![r] = [rec EXCEPT !.pc = "done", !.at = now, !.resp = Some(resp)]]

\* the handler goes on to its statement pc
Goto(r, rec, pc) ==
    req' = [req EXCEPT ![r] = [rec EXCEPT !.pc = pc, !.at = now]]

-----------------------------------------------------------------------------
(* auth.py create_user_session: generate_session_token, then db.create_session *)

create_user_session(user_id) ==
    /\ issued.session < MaxSessions
    /\ issued' = [issued EXCEPT !.session = @ + 1]
    /\ sessions' = create_session(user_id, issued.session + 1, now + SESSION_LIFETIME)

-----------------------------------------------------------------------------
(* POST /api/auth/login: api_login calling authenticate_user *)

\* authenticate_user resetting the counter before the branch on totp_enabled
StartLogin_reset_first(r, username, password) ==
    /\ Free(r)
    /\ LET rec == [Idle EXCEPT !.op = "login", !.username = username, !.password = password]
       IN  IF username = None \/ password = None
           THEN /\ Done(r, rec, Error(400, "Username and password required"))
                /\ UNCHANGED history
           ELSE LET user == get_user_by_username(username[1])
                    auth == authenticate_user(user, password[1], now)
                    got  == [rec EXCEPT !.user = user, !.verified = auth.verified]
                IN  CASE auth.next = "update" ->
                           /\ Goto(r, [got EXCEPT !.overlap = {q \in Reqs \ {r} :
                                            /\ req[q].pc = "login_update_attempts"
                                            /\ req[q].user = user}],
                                   "login_update_attempts")
                           /\ UNCHANGED history
                      [] auth.next = "reset" ->
                           /\ Goto(r, got, "login_reset_attempts")
                           /\ history' = [history EXCEPT !.streak[user[1].id] = 0]
                      [] auth.next = "return" /\ "error" \in DOMAIN auth.result ->
                           /\ Done(r, got, Error(401, auth.result.error))
                           /\ UNCHANGED history
                      [] auth.next = "return" /\ "error" \notin DOMAIN auth.result ->
                           /\ Done(r, got, Response(200, [requires_2fa |-> TRUE,
                                                          user_id |-> auth.result.user_id]))
                           /\ history' = [history EXCEPT !.streak[user[1].id] = 0,
                                                         !.awaiting = @ \cup {user[1].id}]
    /\ users' = IF /\ username # None /\ password # None
                   /\ get_user_by_username(username[1]) # None
                   /\ authenticate_user(get_user_by_username(username[1]),
                                        password[1], now).next = "return"
                   /\ authenticate_user(get_user_by_username(username[1]),
                                        password[1], now).verified
                THEN reset_user_login_attempts(get_user_by_username(username[1])[1].id)
                ELSE users
    /\ UNCHANGED <<now, sessions, issued, outbox>>

\* main.py 240-258, auth.py 84-113: the read of the account and what follows from it
StartLogin(r, username, password) ==
    /\ Free(r)
    /\ LET rec == [Idle EXCEPT !.op = "login", !.username = username, !.password = password]
       IN  IF username = None \/ password = None
           THEN /\ Done(r, rec, Error(400, "Username and password required"))
                /\ UNCHANGED history
           ELSE LET user == get_user_by_username(username[1])
                    auth == authenticate_user(user, password[1], now)
                    got  == [rec EXCEPT !.user = user, !.verified = auth.verified]
                IN  CASE auth.next = "update" ->
                           /\ Goto(r, [got EXCEPT !.overlap = {q \in Reqs \ {r} :
                                            /\ req[q].pc = "login_update_attempts"
                                            /\ req[q].user = user}],
                                   "login_update_attempts")
                           /\ UNCHANGED history
                      [] auth.next = "reset" ->
                           /\ Goto(r, got, "login_reset_attempts")
                           /\ history' = [history EXCEPT !.streak[user[1].id] = 0]
                      [] auth.next = "return" /\ "error" \in DOMAIN auth.result ->
                           /\ Done(r, got, Error(401, auth.result.error))
                           /\ UNCHANGED history
                      [] auth.next = "return" /\ "error" \notin DOMAIN auth.result ->
                           /\ Done(r, got, Response(200, [requires_2fa |-> TRUE,
                                                          user_id |-> auth.result.user_id]))
                           /\ history' = [history EXCEPT !.streak[user[1].id] = 0,
                                                         !.awaiting = @ \cup {user[1].id}]
    /\ UNCHANGED <<now, users, sessions, issued, outbox>>

\* auth.py 96-106, main.py 251-252: the write of the failed attempt
LoginUpdateAttempts(r) ==
    /\ req[r].pc = "login_update_attempts"
    /\ LET user == req[r].user[1]
           fail == failed_attempt(user, now)
       IN  /\ users' = update_user_login_attempts(user.id, fail.attempts, fail.locked_until)
           /\ history' = [history EXCEPT !.streak[user.id] = @ + 1]
           /\ Done(r, req[r], Error(401, fail.result.error))
    /\ UNCHANGED <<now, sessions, issued, outbox>>

\* auth.py 116
LoginResetAttempts(r) ==
    /\ req[r].pc = "login_reset_attempts"
    /\ users' = reset_user_login_attempts(req[r].user[1].id)
    /\ Goto(r, req[r], "login_create_session")
    /\ UNCHANGED <<now, sessions, issued, outbox, history>>

\* main.py 260-284
LoginCreateSession(r) ==
    /\ req[r].pc = "login_create_session"
    /\ create_user_session(req[r].user[1].id)
    /\ Done(r, req[r], Response(200, [success |-> TRUE, redirect |-> "/admin/dashboard",
                                      cookie |-> issued.session + 1]))
    /\ UNCHANGED <<now, users, outbox, history>>

-----------------------------------------------------------------------------
(* POST /api/auth/verify-2fa: api_verify_2fa *)

\* api_verify_2fa counting a refused code as a failed login attempt
StartVerify2fa_counts_failure(r, user_id, code) ==
    /\ Free(r)
    /\ LET rec == [Idle EXCEPT !.op = "verify_2fa", !.username = user_id, !.code = code]
           user == IF user_id = None THEN None ELSE get_user_by_id(user_id[1])
       IN  IF user_id = None \/ code = None
           THEN Done(r, rec, Error(400, "User ID and code required")) /\ UNCHANGED <<users, history>>
           ELSE IF user = None \/ ~user[1].totp_enabled
           THEN Done(r, rec, Error(400, "Invalid request")) /\ UNCHANGED <<users, history>>
           ELSE IF ~verify_totp(user[1].totp_secret, code, now)
           THEN /\ Done(r, [rec EXCEPT !.user = user], Error(401, "Invalid verification code"))
                /\ users' = update_user_login_attempts(user[1].id,
                                failed_attempt(user[1], now).attempts,
                                failed_attempt(user[1], now).locked_until)
                /\ history' = [history EXCEPT !.badcodes[user[1].id] =
                                   IF @ < MAX_LOGIN_ATTEMPTS THEN @ + 1 ELSE @]
           ELSE /\ Goto(r, [rec EXCEPT !.user = user, !.verified = TRUE], "v2fa_create_session")
                /\ UNCHANGED <<users, history>>
    /\ UNCHANGED <<now, sessions, issued, outbox>>

\* main.py 292-301
StartVerify2fa(r, user_id, code) ==
    /\ Free(r)
    /\ LET rec == [Idle EXCEPT !.op = "verify_2fa", !.username = user_id, !.code = code]
           user == IF user_id = None THEN None ELSE get_user_by_id(user_id[1])
       IN  IF user_id = None \/ code = None
           THEN Done(r, rec, Error(400, "User ID and code required")) /\ UNCHANGED history
           ELSE IF user = None \/ ~user[1].totp_enabled
           THEN Done(r, rec, Error(400, "Invalid request")) /\ UNCHANGED history
           ELSE IF ~verify_totp(user[1].totp_secret, code, now)
           THEN /\ Done(r, [rec EXCEPT !.user = user], Error(401, "Invalid verification code"))
                /\ history' = [history EXCEPT !.badcodes[user[1].id] =
                                   IF @ < MAX_LOGIN_ATTEMPTS THEN @ + 1 ELSE @]
           ELSE /\ Goto(r, [rec EXCEPT !.user = user, !.verified = TRUE], "v2fa_create_session")
                /\ UNCHANGED history
    /\ UNCHANGED <<now, users, sessions, issued, outbox>>

\* main.py 303-318
Verify2faCreateSession(r) ==
    /\ req[r].pc = "v2fa_create_session"
    /\ create_user_session(req[r].user[1].id)
    /\ Goto(r, [req[r] EXCEPT !.token = Some(issued.session + 1)], "v2fa_reset_attempts")
    /\ UNCHANGED <<now, users, outbox, history>>

\* main.py 320-328
Verify2faResetAttempts(r) ==
    /\ req[r].pc = "v2fa_reset_attempts"
    /\ users' = reset_user_login_attempts(req[r].user[1].id)
    /\ history' = [history EXCEPT !.streak[req[r].user[1].id] = 0]
    /\ Done(r, req[r], Response(200, [success |-> TRUE, redirect |-> "/admin/dashboard",
                                      cookie |-> req[r].token[1]]))
    /\ UNCHANGED <<now, sessions, issued, outbox>>

-----------------------------------------------------------------------------
(* POST /api/auth/forgot-password: api_forgot_password *)

ResetRequested == Response(200, [success |-> TRUE, message |->
    "If an account exists with that email, a reset link has been sent."])

\* api_forgot_password answering a miss with an error
StartForgotPassword_reveal(r, email) ==
    /\ Free(r)
    /\ LET rec == [Idle EXCEPT !.op = "forgot_password", !.username = email]
       IN  IF email = None
           THEN Done(r, rec, Error(400, "Email required"))
           ELSE LET user == get_user_by_email(email[1])
                IN  IF user = None
                    THEN Done(r, rec, Error(404, "No account with that email"))
                    ELSE Goto(r, [rec EXCEPT !.user = user], "forgot_set_token")
    /\ UNCHANGED <<now, users, sessions, issued, outbox, history>>

\* main.py 360-369, 373-376
StartForgotPassword(r, email) ==
    /\ Free(r)
    /\ LET rec == [Idle EXCEPT !.op = "forgot_password", !.username = email]
       IN  IF email = None
           THEN Done(r, rec, Error(400, "Email required"))
           ELSE LET user == get_user_by_email(email[1])
                IN  IF user = None
                    THEN Done(r, rec, ResetRequested)
                    ELSE Goto(r, [rec EXCEPT !.user = user], "forgot_set_token")
    /\ UNCHANGED <<now, users, sessions, issued, outbox, history>>

\* main.py 370-376, auth.py 33-37: generate_password_reset_token, then the e-mail
ForgotSetToken(r) ==
    /\ req[r].pc = "forgot_set_token"
    /\ issued.reset < MaxResetTokens
    /\ LET token == issued.reset + 1
       IN  /\ issued' = [issued EXCEPT !.reset = token]
           /\ users' = set_password_reset_token(req[r].user[1].id, token,
                                                now + PASSWORD_RESET_EXPIRY)
           /\ outbox' = outbox \cup {[to |-> req[r].username[1], token |-> token]}
    /\ Done(r, req[r], ResetRequested)
    /\ UNCHANGED <<now, sessions, history>>

-----------------------------------------------------------------------------
(* POST /api/auth/reset-password: api_reset_password *)

InvalidResetToken == Error(400, "Invalid or expired reset token")

\* api_reset_password looking the token up before it checks the length
StartResetPassword_lookup_first(r, token, password) ==
    /\ Free(r)
    /\ LET rec == [Idle EXCEPT !.op = "reset_password", !.token = token,
                               !.password = password]
       IN  IF token = None \/ password = None
           THEN Done(r, rec, Error(400, "Token and password required"))
           ELSE LET user == get_user_by_reset_token(token[1])
                IN  IF user = None
                    THEN Done(r, rec, InvalidResetToken)
                    ELSE IF Len(password[1]) < PASSWORD_MIN_LENGTH
                    THEN Done(r, rec, Error(400, "Password must be at least "
                                        \o ToString(PASSWORD_MIN_LENGTH) \o " characters"))
                    ELSE Goto(r, [rec EXCEPT !.user = user], "reset_update_password")
    /\ UNCHANGED <<now, users, sessions, issued, outbox, history>>

\* main.py 383-395
StartResetPassword(r, token, password) ==
    /\ Free(r)
    /\ LET rec == [Idle EXCEPT !.op = "reset_password", !.token = token,
                               !.password = password]
       IN  IF token = None \/ password = None
           THEN Done(r, rec, Error(400, "Token and password required"))
           ELSE IF Len(password[1]) < PASSWORD_MIN_LENGTH
           THEN Done(r, rec, Error(400, "Password must be at least "
                                        \o ToString(PASSWORD_MIN_LENGTH) \o " characters"))
           ELSE LET user == get_user_by_reset_token(token[1])
                IN  IF user = None
                    THEN Done(r, rec, InvalidResetToken)
                    ELSE Goto(r, [rec EXCEPT !.user = user], "reset_update_password")
    /\ UNCHANGED <<now, users, sessions, issued, outbox, history>>

\* main.py 397-398
ResetUpdatePassword(r) ==
    /\ req[r].pc = "reset_update_password"
    /\ users' = update_user_password(req[r].user[1].id, hash_password(req[r].password[1]))
    /\ history' = [history EXCEPT !.redeemed = @ \cup {req[r].token[1]}]
    /\ Goto(r, req[r], "reset_delete_sessions")
    /\ UNCHANGED <<now, sessions, issued, outbox>>

\* main.py 399-411
ResetDeleteSessions(r) ==
    /\ req[r].pc = "reset_delete_sessions"
    /\ sessions' = delete_user_sessions(req[r].user[1].id)
    /\ Done(r, [req[r] EXCEPT !.mark = issued.session], Response(200, [success |-> TRUE, message |->
            "Password has been reset. Please log in with your new password."]))
    /\ UNCHANGED <<now, users, issued, outbox, history>>

-----------------------------------------------------------------------------
(* auth.py get_current_user, main.py require_auth *)

\* auth.py 137-145: the session the cookie resolves to
get_current_user(cookie) ==
    IF cookie = None THEN None ELSE get_session_by_token(cookie[1])

\* auth.py 147-148: update_session_activity of that session.  The SELECT and this
\* UPDATE of last_activity are taken as one step.
touch_session(cookie) ==
    IF get_current_user(cookie) = None
    THEN sessions
    ELSE update_session_activity(get_current_user(cookie)[1].id)

Unauthorized == Error(401, "Unauthorized")
\* user['user_id'] on None: an unhandled TypeError, Flask's 500
ServerError == Error(500, "Internal Server Error")

\* main.py 42-52: the decorator, before the handler's body
RequireAuth(r, rec, pc) ==
    /\ sessions' = touch_session(rec.token)
    /\ IF get_current_user(rec.token) = None
       THEN Done(r, rec, Unauthorized)
       ELSE Goto(r, rec, pc)

\* user = get_current_user() in the handler's body
GetUser(r, pc) ==
    /\ sessions' = touch_session(req[r].token)
    /\ IF get_current_user(req[r].token) = None
       THEN Done(r, req[r], ServerError)
       ELSE Goto(r, [req[r] EXCEPT !.session = get_current_user(req[r].token)], pc)

-----------------------------------------------------------------------------
(* POST /api/auth/setup-2fa: api_setup_2fa *)

StartSetup2fa(r, cookie) ==
    /\ Free(r)
    /\ RequireAuth(r, [Idle EXCEPT !.op = "setup_2fa", !.token = cookie], "setup_get_user")
    /\ UNCHANGED <<now, users, issued, outbox, history>>

\* main.py 419
Setup2faGetUser(r) ==
    /\ req[r].pc = "setup_get_user"
    /\ GetUser(r, "setup_store")
    /\ UNCHANGED <<now, users, issued, outbox, history>>

\* main.py 420-430: generate_totp_secret, update_user_totp(user_id, secret, False)
Setup2faStore(r) ==
    /\ req[r].pc = "setup_store"
    /\ issued.secret < MaxSecrets
    /\ LET secret == issued.secret + 1
       IN  /\ issued' = [issued EXCEPT !.secret = secret]
           /\ users' = update_user_totp(req[r].session[1].user_id, Some(secret), FALSE)
           /\ Done(r, req[r], Response(200, [secret |-> secret,
                   qr_code |-> <<"otpauth://totp", req[r].session[1].email, secret>>]))
    /\ history' = [history EXCEPT !.awaiting = @ \ {req[r].session[1].user_id}]
    /\ UNCHANGED <<now, sessions, outbox>>

-----------------------------------------------------------------------------
(* POST /api/auth/enable-2fa: api_enable_2fa *)

\* main.py 438-442
StartEnable2fa(r, cookie, code) ==
    /\ Free(r)
    /\ LET rec == [Idle EXCEPT !.op = "enable_2fa", !.token = cookie, !.code = code]
       IN  IF get_current_user(cookie) # None /\ code = None
           THEN /\ sessions' = touch_session(cookie)
                /\ Done(r, rec, Error(400, "Verification code required"))
           ELSE RequireAuth(r, rec, "enable_get_user")
    /\ UNCHANGED <<now, users, issued, outbox, history>>

\* main.py 444
Enable2faGetUser(r) ==
    /\ req[r].pc = "enable_get_user"
    /\ GetUser(r, "enable_read_user")
    /\ UNCHANGED <<now, users, issued, outbox, history>>

\* main.py 445-451
Enable2faReadUser(r) ==
    /\ req[r].pc = "enable_read_user"
    /\ LET user_data == get_user_by_id(req[r].session[1].user_id)
       IN  IF user_data = None \/ user_data[1].totp_secret = None
           THEN Done(r, req[r], Error(400, "2FA setup not initiated"))
           ELSE IF ~verify_totp(user_data[1].totp_secret, req[r].code, now)
           THEN Done(r, [req[r] EXCEPT !.user = user_data],
                     Error(400, "Invalid verification code"))
           ELSE Goto(r, [req[r] EXCEPT !.user = user_data, !.verified = TRUE],
                     "enable_store")
    /\ UNCHANGED <<now, users, sessions, issued, outbox, history>>

\* main.py 453-462
Enable2faStore(r) ==
    /\ req[r].pc = "enable_store"
    /\ users' = update_user_totp(req[r].session[1].user_id, req[r].user[1].totp_secret, TRUE)
    /\ Done(r, req[r], Response(200, [success |-> TRUE, message |-> "2FA has been enabled"]))
    /\ UNCHANGED <<now, sessions, issued, outbox, history>>

-----------------------------------------------------------------------------
(* POST /api/auth/disable-2fa: api_disable_2fa *)

StartDisable2fa(r, cookie) ==
    /\ Free(r)
    /\ RequireAuth(r, [Idle EXCEPT !.op = "disable_2fa", !.token = cookie],
                   "disable_get_user")
    /\ UNCHANGED <<now, users, issued, outbox, history>>

\* main.py 470
Disable2faGetUser(r) ==
    /\ req[r].pc = "disable_get_user"
    /\ GetUser(r, "disable_store")
    /\ UNCHANGED <<now, users, issued, outbox, history>>

\* api_disable_2fa clearing the secret and leaving the flag
Disable2faStore_keep_flag(r) ==
    /\ req[r].pc = "disable_store"
    /\ users' = [users EXCEPT ![req[r].session[1].user_id].totp_secret = None]
    /\ Done(r, req[r], Response(200, [success |-> TRUE, message |-> "2FA has been disabled"]))
    /\ history' = [history EXCEPT !.awaiting = @ \ {req[r].session[1].user_id}]
    /\ UNCHANGED <<now, sessions, issued, outbox>>

\* main.py 471-480
Disable2faStore(r) ==
    /\ req[r].pc = "disable_store"
    /\ users' = update_user_totp(req[r].session[1].user_id, None, FALSE)
    /\ Done(r, req[r], Response(200, [success |-> TRUE, message |-> "2FA has been disabled"]))
    /\ history' = [history EXCEPT !.awaiting = @ \ {req[r].session[1].user_id}]
    /\ UNCHANGED <<now, sessions, issued, outbox>>

-----------------------------------------------------------------------------
(* GET /admin: admin_index; POST /api/auth/logout: api_logout *)

\* main.py 217-224
AdminIndex(r, cookie) ==
    /\ Free(r)
    /\ sessions' = touch_session(cookie)
    /\ Done(r, [Idle EXCEPT !.op = "admin_index", !.token = cookie,
                            !.session = get_current_user(cookie)],
            Response(302, [location |-> IF get_current_user(cookie) # None
                                        THEN "/admin/dashboard" ELSE "/admin/login"]))
    /\ UNCHANGED <<now, users, issued, outbox, history>>

\* main.py 335-336
StartLogout(r, cookie) ==
    /\ Free(r)
    /\ sessions' = touch_session(cookie)
    /\ LET rec == [Idle EXCEPT !.op = "logout", !.token = cookie,
                               !.session = get_current_user(cookie)]
       IN  IF cookie = None
           THEN Done(r, rec, Response(200, [success |-> TRUE]))
           ELSE Goto(r, rec, "logout_delete_session")
    /\ UNCHANGED <<now, users, issued, outbox, history>>

\* main.py 338-351
LogoutDeleteSession(r) ==
    /\ req[r].pc = "logout_delete_session"
    /\ sessions' = delete_session(req[r].token[1])
    /\ Done(r, req[r], Response(200, [success |-> TRUE]))
    /\ UNCHANGED <<now, users, issued, outbox, history>>

\* users.is_active is read by every lookup (database.py 87, 94, 101, 111, 177) and
\* written by no statement of the application: an operator's
\* UPDATE users SET is_active = FALSE
DeactivateAccount(u) ==
    /\ users[u].is_active
    /\ users' = [users EXCEPT ![u].is_active = FALSE]
    /\ UNCHANGED <<now, sessions, issued, outbox, req, history>>

-----------------------------------------------------------------------------
(* The clock *)

Tick(d) ==
    /\ now < d * MaxTicks
    /\ now' = now + d
    /\ UNCHANGED <<users, sessions, issued, outbox, req, history>>

-----------------------------------------------------------------------------
(* Initial states *)

SeededSecret == 0

Row(u) == [id |-> u, username |-> u, email |-> EmailOf[u],
           password_hash |-> hash_password(InitialPassword[u]), is_active |-> TRUE,
           failed_login_attempts |-> 0, locked_until |-> None,
           totp_secret |-> None, totp_enabled |-> FALSE,
           password_reset_token |-> None, password_reset_expires |-> None]

\* After init_admin_user; nobody has logged in or enrolled a second factor.
InitFresh ==
    /\ now = 0
    /\ users = [u \in Users |-> Row(u)]
    /\ sessions = {}
    /\ issued = [session |-> 0, reset |-> 0, secret |-> 0]
    /\ outbox = {}
    /\ req = [r \in Reqs |-> Idle]
    /\ history = [streak |-> [u \in Users |-> 0], redeemed |-> {},
                  badcodes |-> [u \in Users |-> 0], awaiting |-> {}]

\* As InitFresh; the admin may have enrolled a second factor (setup-2fa, enable-2fa).
Init ==
    /\ now = 0
    /\ \E enrolled \in BOOLEAN :
         users = [u \in Users |-> IF u = "admin" /\ enrolled
                                  THEN [Row(u) EXCEPT !.totp_secret = Some(SeededSecret),
                                                      !.totp_enabled = TRUE]
                                  ELSE Row(u)]
    /\ sessions = {}
    /\ issued = [session |-> 0, reset |-> 0, secret |-> 0]
    /\ outbox = {}
    /\ req = [r \in Reqs |-> Idle]
    /\ history = [streak |-> [u \in Users |-> 0], redeemed |-> {},
                  badcodes |-> [u \in Users |-> 0], awaiting |-> {}]

-----------------------------------------------------------------------------
(* Inputs a client sends *)

WrongPassword == "letmein"

\* {username, password} bodies of POST /api/auth/login
LoginInputs ==
    {<<None, None>>}
    \cup {<<Some(u), Some(p)>> : u \in {"admin", "nobody"},
                                p \in {InitialPassword["admin"], WrongPassword}}

\* {user_id, code} bodies of POST /api/auth/verify-2fa: the codes an authenticator
\* shows for the seeded secret around the current time step, and one of another secret
Verify2faInputs ==
    {<<None, None>>, <<Some("nobody"), Some(TotpAt(SeededSecret, now, 0))>>}
    \cup {<<Some("admin"), Some(TotpAt(SeededSecret, now, k))>> : k \in -2..2}
    \cup {<<Some("admin"), Some(TotpAt(SeededSecret + 1, now, 0))>>}

-----------------------------------------------------------------------------
(* Login and second-factor completion, one request at a time *)

Next ==
    \/ \E in \in LoginInputs : StartLogin("r1", in[1], in[2])
    \/ LoginUpdateAttempts("r1")
    \/ LoginResetAttempts("r1")
    \/ LoginCreateSession("r1")
    \/ \E in \in Verify2faInputs : StartVerify2fa("r1", in[1], in[2])
    \/ Verify2faCreateSession("r1")
    \/ Verify2faResetAttempts("r1")
    \/ Tick(LOCKOUT_DURATION)

Spec == Init /\ [][Next]_vars

(* Logins to one account, two requests interleaved *)

ConcLoginInputs ==
    {<<Some("admin"), Some(p)>> : p \in {InitialPassword["admin"], WrongPassword}}

NextConc ==
    \/ \E r \in Reqs, in \in ConcLoginInputs : StartLogin(r, in[1], in[2])
    \/ \E r \in Reqs : LoginUpdateAttempts(r)
    \/ \E r \in Reqs : LoginResetAttempts(r)
    \/ \E r \in Reqs : LoginCreateSession(r)
    \/ Tick(LOCKOUT_DURATION)

SpecConc == Init /\ [][NextConc]_vars

(* Password recovery and logins of two accounts, one request at a time *)

\* of exactly PASSWORD_MIN_LENGTH characters, and of one less
NewPassword == "xkcd-936"
ShortPassword == "hunter2"

\* logins of the account holders, who know their current password
ResetLoginInputs ==
    {<<Some(in[1]), Some(in[2])>> :
        in \in {x \in Users \X {InitialPassword[u] : u \in Users} \cup Users \X {NewPassword} :
                  verify_password(x[2], users[x[1]].password_hash)}}

\* {email} bodies of POST /api/auth/forgot-password: no address, one of no
\* account, the admin's
ForgotInputs == {None, Some("nobody@example.com"), Some(EmailOf["admin"])}

\* {token, password} bodies of POST /api/auth/reset-password: token 0 was never
\* issued, the others were e-mailed
ResetInputs ==
    {<<None, None>>}
    \cup {<<Some(t), Some(p)>> : t \in 0..issued.reset, p \in {ShortPassword, NewPassword}}

NextReset ==
    \/ \E in \in ResetLoginInputs : StartLogin("r1", in[1], in[2])
    \/ LoginResetAttempts("r1")
    \/ LoginCreateSession("r1")
    \/ \E email \in ForgotInputs : StartForgotPassword("r1", email)
    \/ ForgotSetToken("r1")
    \/ \E in \in ResetInputs : StartResetPassword("r1", in[1], in[2])
    \/ ResetUpdatePassword("r1")
    \/ ResetDeleteSessions("r1")
    \/ Tick(PASSWORD_RESET_EXPIRY)

SpecReset == InitFresh /\ [][NextReset]_vars

(* Second-factor enrollment by a logged-in admin, one request at a time *)

TotpLoginInputs == {<<Some("admin"), Some(InitialPassword["admin"])>>}

\* the session cookie of a request: none, a token that was never issued (0), or
\* one that was
CookieInputs == {None} \cup {Some(t) : t \in 0..issued.session}

\* the code of a request: none, or what an authenticator shows for a generated
\* secret around the current time step
EnableCodeInputs ==
    {None} \cup {Some(TotpAt(s, now, k)) : s \in 1..issued.secret, k \in {-2, -1, 0, 1, 2}}

NextTotp ==
    \/ \E in \in TotpLoginInputs : StartLogin("r1", in[1], in[2])
    \/ LoginResetAttempts("r1")
    \/ LoginCreateSession("r1")
    \/ \E c \in CookieInputs : StartSetup2fa("r1", c)
    \/ Setup2faGetUser("r1")
    \/ Setup2faStore("r1")
    \/ \E c \in CookieInputs, code \in EnableCodeInputs : StartEnable2fa("r1", c, code)
    \/ Enable2faGetUser("r1")
    \/ Enable2faReadUser("r1")
    \/ Enable2faStore("r1")
    \/ \E c \in CookieInputs : StartDisable2fa("r1", c)
    \/ Disable2faGetUser("r1")
    \/ Disable2faStore("r1")
    \/ Tick(TOTP_INTERVAL)

SpecTotp == InitFresh /\ [][NextTotp]_vars

(* Second-factor enrollment, two requests interleaved *)

\* cookies of the sessions issued so far
ConcCookieInputs == {Some(t) : t \in 1..issued.session}

\* the current code of a generated secret, or of the secret nobody was given
ConcCodeInputs == {Some(TotpAt(s, now, 0)) : s \in 0..issued.secret}

NextTotpConc ==
    \/ \E r \in Reqs, in \in TotpLoginInputs : StartLogin(r, in[1], in[2])
    \/ \E r \in Reqs : LoginResetAttempts(r)
    \/ \E r \in Reqs : LoginCreateSession(r)
    \/ \E r \in Reqs, c \in ConcCookieInputs : StartSetup2fa(r, c)
    \/ \E r \in Reqs : Setup2faGetUser(r)
    \/ \E r \in Reqs : Setup2faStore(r)
    \/ \E r \in Reqs, c \in ConcCookieInputs, code \in ConcCodeInputs : StartEnable2fa(r, c, code)
    \/ \E r \in Reqs : Enable2faGetUser(r)
    \/ \E r \in Reqs : Enable2faReadUser(r)
    \/ \E r \in Reqs : Enable2faStore(r)
    \/ \E r \in Reqs, c \in ConcCookieInputs : StartDisable2fa(r, c)
    \/ \E r \in Reqs : Disable2faGetUser(r)
    \/ \E r \in Reqs : Disable2faStore(r)

SpecTotpConc == InitFresh /\ [][NextTotpConc]_vars

(* verify_totp on its own: a secret, a code and the time of the call *)

\* the time steps a presented code was generated for
GenSteps == 0..(MaxTicks + 2)

\* auth.py 44-48, called with the secret in token and the code in code
VerifyTotpCall(r) ==
    /\ req[r].pc = "verify_totp"
    /\ Done(r, [req[r] EXCEPT !.verified = verify_totp(req[r].token, req[r].code, now)],
            Response(200, [result |-> verify_totp(req[r].token, req[r].code, now)]))
    /\ UNCHANGED <<now, users, sessions, issued, outbox, history>>

InitVerifyTotp ==
    /\ now \in {0, TOTP_INTERVAL - 1}
    /\ users = [u \in Users |-> Row(u)]
    /\ sessions = {}
    /\ issued = [session |-> 0, reset |-> 0, secret |-> MaxSecrets]
    /\ outbox = {}
    /\ \E secret \in {None} \cup {Some(x) : x \in 1..MaxSecrets},
          code \in {None} \cup {Some(TotpAt(x, g * TOTP_INTERVAL, 0)) :
                                    x \in 1..MaxSecrets, g \in GenSteps} :
          req = [r \in Reqs |-> IF r = "r1"
                                THEN [Idle EXCEPT !.pc = "verify_totp", !.op = "verify_totp",
                                                  !.token = secret, !.code = code]
                                ELSE Idle]
    /\ history = [streak |-> [u \in Users |-> 0], redeemed |-> {},
                  badcodes |-> [u \in Users |-> 0], awaiting |-> {}]

NextVerifyTotp ==
    \/ VerifyTotpCall("r1")
    \/ Tick(TOTP_INTERVAL)

SpecVerifyTotp == InitVerifyTotp /\ [][NextVerifyTotp]_vars

(* Sessions: logins, session lookups and logouts, one request at a time *)

NextSession ==
    \/ \E in \in ResetLoginInputs : StartLogin("r1", in[1], in[2])
    \/ LoginResetAttempts("r1")
    \/ LoginCreateSession("r1")
    \/ \E c \in CookieInputs : AdminIndex("r1", c)
    \/ \E c \in CookieInputs : StartLogout("r1", c)
    \/ LogoutDeleteSession("r1")
    \/ \E u \in Users : DeactivateAccount(u)
    \/ Tick(SESSION_LIFETIME)

SpecSession == InitFresh /\ [][NextSession]_vars

(* Password recovery and logins of one account, two requests interleaved *)

OtherPassword == "Tr0ub4dor&3"

\* logins of the admin, who knows the current password
ConcResetLoginInputs == {in \in ResetLoginInputs : in[1] = Some("admin")}

\* {token, password} bodies of POST /api/auth/reset-password with an e-mailed token
ConcResetInputs ==
    {<<Some(t), Some(p)>> : t \in 1..issued.reset, p \in {NewPassword, OtherPassword}}

NextResetConc ==
    \/ \E r \in Reqs, in \in ConcResetLoginInputs : StartLogin(r, in[1], in[2])
    \/ \E r \in Reqs : LoginResetAttempts(r)
    \/ \E r \in Reqs : LoginCreateSession(r)
    \/ \E r \in Reqs : StartForgotPassword(r, Some(EmailOf["admin"]))
    \/ \E r \in Reqs : ForgotSetToken(r)
    \/ \E r \in Reqs, in \in ConcResetInputs : StartResetPassword(r, in[1], in[2])
    \/ \E r \in Reqs : ResetUpdatePassword(r)
    \/ \E r \in Reqs : ResetDeleteSessions(r)

SpecResetConc == InitFresh /\ [][NextResetConc]_vars

-----------------------------------------------------------------------------
(* Vocabulary of the properties *)

\* the lock of a row is in force at time t
LockInForce(row, t) == row.locked_until # None /\ t < row.locked_until[1]

\* request slot r holds a finished call of handler op
Finished(r, op) == req[r].pc = "done" /\ req[r].op = op

\* a finished login that found the account it named
FoundAccount(r) == Finished(r, "login") /\ req[r].user # None

RightPassword(r) ==
    /\ req[r].password # None
    /\ req[r].user[1].password_hash = hash_password(req[r].password[1])

\* a finished login with a wrong password for an account whose lock was not in force
WrongPasswordLogin(r) ==
    /\ FoundAccount(r)
    /\ ~RightPassword(r)
    /\ ~LockInForce(req[r].user[1], req[r].at)

InvalidCredentials == Error(401, "Invalid username or password")
TemporarilyLocked == Error(401, "Account is temporarily locked. Please try again later.")

-----------------------------------------------------------------------------
(* C1: an account that starts with failed_login_attempts = 0 and no lock is
   locked once MAX_LOGIN_ATTEMPTS wrong-password logins in a row have been made
   (the lock is in force when the last of them returns), and every login that
   finds the lock in force, with the right password too, returns the locked
   error and no user. *)
C1_LockedAfterThreshold ==
    \A r \in Reqs :
        /\ ( /\ WrongPasswordLogin(r)
             /\ history.streak[req[r].user[1].id] >= MAX_LOGIN_ATTEMPTS
             /\ req[r].at = now )
           => LockInForce(users[req[r].user[1].id], now)
        /\ ( FoundAccount(r) /\ LockInForce(req[r].user[1], req[r].at) )
           => req[r].resp = Some(TemporarilyLocked)

\* the right password was refused as locked right after the fifth wrong one
C1_Witness ==
    /\ FoundAccount("r1")
    /\ RightPassword("r1")
    /\ LockInForce(req["r1"].user[1], req["r1"].at)
    /\ req["r1"].user[1].failed_login_attempts = MAX_LOGIN_ATTEMPTS
    /\ history.streak["admin"] = MAX_LOGIN_ATTEMPTS

(* C2: two wrong-password logins that overlap on one unlocked account (the
   second read the row before the first wrote it) leave failed_login_attempts
   2 higher than the value they read. *)
C2_NoLostUpdate ==
    \A r \in Reqs : \A q \in req[r].overlap :
        ( /\ WrongPasswordLogin(r)
          /\ WrongPasswordLogin(q)
          /\ req[q].user = req[r].user )
        => users[req[r].user[1].id].failed_login_attempts
             = req[r].user[1].failed_login_attempts + 2

(* C3: a login with an unknown username and a login with a wrong password for
   an existing, unlocked account return the identical error. *)
C3_SameErrorAsUnknownUser ==
    \A r \in Reqs :
        ( /\ Finished(r, "login")
          /\ req[r].username # None /\ req[r].password # None
          /\ (req[r].user = None \/ WrongPasswordLogin(r)) )
        => req[r].resp = Some(InvalidCredentials)

(* C4: a login that finds the account's lock in force returns one constant
   result, the same for the right and for a wrong password, for every
   failed_login_attempts and every remaining lock time, and verify_password
   has not been called. *)
C4_LockedResultConstant ==
    \A r \in Reqs :
        ( /\ Finished(r, "login")
          /\ req[r].user # None
          /\ req[r].user[1].locked_until # None
          /\ req[r].at < req[r].user[1].locked_until[1] )
        => /\ req[r].resp = Some([status |-> 401, body |->
                 [error |-> "Account is temporarily locked. Please try again later."]])
           /\ ~req[r].verified

\* the right password met a lock in force, on a counter past the threshold
C4_Witness ==
    /\ FoundAccount("r1")
    /\ RightPassword("r1")
    /\ LockInForce(req["r1"].user[1], req["r1"].at)
    /\ req["r1"].user[1].failed_login_attempts > MAX_LOGIN_ATTEMPTS

(* C5: a login with the right password to an account whose totp_enabled is
   true returns requires_2fa with the account id and creates no session; a
   session of such an account is created only by api_verify_2fa, after it
   accepted a code against the account's totp_secret. *)
C5_SessionOnlyAfterSecondFactor ==
    [][ /\ \A r \in Reqs :
             ( /\ req'[r] # req[r]
               /\ req'[r].pc = "done" /\ req'[r].op = "login"
               /\ req'[r].user # None
               /\ req'[r].user[1].totp_enabled
               /\ req'[r].user[1].password_hash = hash_password(req'[r].password[1])
               /\ ~LockInForce(req'[r].user[1], req'[r].at) )
             => /\ req'[r].resp = Some(Response(200, [requires_2fa |-> TRUE,
                                                      user_id |-> req'[r].user[1].id]))
                /\ sessions' = sessions
        /\ \A s \in sessions' \ sessions :
             users[s.user_id].totp_enabled
             => \E r \in Reqs :
                   /\ req[r].op = "verify_2fa"
                   /\ req[r].pc = "v2fa_create_session"
                   /\ req[r].user[1].id = s.user_id
                   /\ req[r].user[1].totp_secret = users[s.user_id].totp_secret
                   /\ \E i \in -1..1 :
                         req[r].code = Some(<<users[s.user_id].totp_secret[1],
                                              (req[r].at \div TOTP_INTERVAL) + i>>)
      ]_vars

\* the right password got requires_2fa while the account's only session came
\* from a second-factor completion
C5_Witness ==
    /\ Finished("r1", "login")
    /\ req["r1"].resp = Some(Response(200, [requires_2fa |-> TRUE, user_id |-> "admin"]))
    /\ users["admin"].totp_enabled
    /\ \E s \in sessions : s.user_id = "admin"

-----------------------------------------------------------------------------
(* C6: once api_reset_password's delete_user_sessions for an account has run,
   get_session_by_token finds no session of that account for any token issued
   before it ran, and the statement leaves the sessions of every other account
   as they were. *)
C6_RevokeAll ==
    [][ /\ \A r \in Reqs :
             ( /\ req'[r].pc = "done" /\ req'[r].op = "reset_password"
               /\ req'[r].resp[1].status = 200 )
             => \A tok \in 1..req'[r].mark :
                   \/ get_session_by_token(tok)' = None
                   \/ get_session_by_token(tok)'[1].user_id # req'[r].user[1].id
        /\ \A r \in Reqs :
             ( req[r].pc = "reset_delete_sessions" /\ req'[r].pc = "done" )
             => {s \in sessions' : s.user_id # req[r].user[1].id}
                  = {s \in sessions : s.user_id # req[r].user[1].id}
      ]_vars

\* the admin's reset has revoked the admin's session and the editor's is still there
C6_Witness ==
    /\ Finished("r1", "reset_password")
    /\ req["r1"].user # None /\ req["r1"].user[1].id = "admin"
    /\ req["r1"].resp[1].status = 200
    /\ req["r1"].mark = 2
    /\ Cardinality(history.redeemed) = 1
    /\ Cardinality(sessions) = 1
    /\ \A s \in sessions : s.user_id = "editor" /\ get_session_by_token(s.session_token) # None

(* C7: api_reset_password with a well-formed body returns the one generic
   error 'Invalid or expired reset token', and changes no account and no
   session, for a token that was never issued, a token whose expiry has passed
   and a token that a reset has already consumed. *)
NeverIssued(tok) == tok \notin {m.token : m \in outbox}
Expired(tok) ==
    \E u \in Users : /\ users[u].password_reset_token = Some(tok)
                     /\ users[u].password_reset_expires # None
                     /\ users[u].password_reset_expires[1] <= now
AlreadyRedeemed(tok) == tok \in history.redeemed

C7_GenericResetError ==
    [][ \A r \in Reqs :
          ( /\ Free(r) /\ req'[r] # req[r]
            /\ req'[r].op = "reset_password"
            /\ req'[r].token # None /\ req'[r].password # None
            /\ Len(req'[r].password[1]) >= PASSWORD_MIN_LENGTH
            /\ \/ NeverIssued(req'[r].token[1])
               \/ Expired(req'[r].token[1])
               \/ AlreadyRedeemed(req'[r].token[1]) )
          => /\ req'[r].pc = "done"
             /\ req'[r].resp = Some(Error(400, "Invalid or expired reset token"))
             /\ users' = users
             /\ sessions' = sessions
      ]_vars

\* the one token ever issued was redeemed, and its second redemption was refused
C7_Witness ==
    /\ Finished("r1", "reset_password")
    /\ req["r1"].resp = Some(InvalidResetToken)
    /\ req["r1"].token = Some(1)
    /\ req["r1"].password = Some(NewPassword)
    /\ history.redeemed = {1}
    /\ issued.reset = 1

(* C8: for every non-empty email api_forgot_password returns the same success
   payload whether or not the email matches an active account; a reset token
   is stored and an e-mail attempted exactly when it matches. *)
MatchesAccount(email) == \E u \in Users : users[u].email = email /\ users[u].is_active

C8_ForgotPasswordUniform ==
    [][ \A r \in Reqs :
          ( /\ req'[r] # req[r]
            /\ req'[r].pc = "done" /\ req'[r].op = "forgot_password"
            /\ req'[r].username # None )
          => /\ req'[r].resp = Some(Response(200, [success |-> TRUE, message |->
                   "If an account exists with that email, a reset link has been sent."]))
             /\ IF MatchesAccount(req'[r].username[1])
                THEN \E u \in Users :
                        /\ users[u].email = req'[r].username[1]
                        /\ users'[u].password_reset_token = Some(issued'.reset)
                        /\ issued'.reset = issued.reset + 1
                        /\ outbox' = outbox \cup {[to |-> users[u].email,
                                                    token |-> issued'.reset]}
                        /\ \A v \in Users \ {u} : users'[v] = users[v]
                ELSE users' = users /\ outbox' = outbox /\ issued' = issued
      ]_vars

\* a miss was answered with the success payload after a hit had stored a token
C8_Witness ==
    /\ Finished("r1", "forgot_password")
    /\ req["r1"].username = Some("nobody@example.com")
    /\ req["r1"].resp = Some(ResetRequested)
    /\ outbox # {}
    /\ \E u \in Users : users[u].password_reset_token # None

(* C9: for an account with a pending secret (totp_secret set, totp_enabled false),
   api_enable_2fa with a code verify_totp accepts goes on to its UPDATE, which
   sets totp_enabled and keeps the secret, and answers 200; with a code
   verify_totp rejects it answers 400 'Invalid verification code' and the users
   table is as it was. *)
Pending(u) == users[u].totp_secret # None /\ ~users[u].totp_enabled

C9_EnablePendingSecret ==
    [][ \A r \in Reqs :
          /\ ( /\ req[r].pc = "enable_read_user" /\ req'[r] # req[r]
               /\ Pending(req[r].session[1].user_id) )
             => LET u == req[r].session[1].user_id
                IN  IF verify_totp(users[u].totp_secret, req[r].code, now)
                    THEN req'[r].pc = "enable_store" /\ users' = users
                    ELSE /\ req'[r].pc = "done"
                         /\ req'[r].resp = Some(Error(400, "Invalid verification code"))
                         /\ users' = users
          /\ ( /\ req[r].pc = "enable_store" /\ req'[r] # req[r]
               /\ Pending(req[r].session[1].user_id) )
             => LET u == req[r].session[1].user_id
                IN  /\ users'[u] = [users[u] EXCEPT !.totp_enabled = TRUE]
                    /\ users'[u].totp_secret = users[u].totp_secret
                    /\ \A v \in Users \ {u} : users'[v] = users[v]
                    /\ req'[r].pc = "done"
                    /\ req'[r].resp[1].status = 200
      ]_vars

\* an enrollment that was accepted on the second generated secret, at a time step
\* after the one the code was made for
C9_Witness ==
    /\ Finished("r1", "enable_2fa")
    /\ req["r1"].resp[1].status = 200
    /\ issued.secret = 2
    /\ users["admin"].totp_enabled
    /\ users["admin"].totp_secret = Some(2)
    /\ req["r1"].code[1] = TotpAt(2, req["r1"].at, -1)

(* C10: in every state reachable by any sequence and interleaving of
   api_setup_2fa, api_enable_2fa and api_disable_2fa, an account with
   totp_enabled has a totp_secret. *)
C10_EnabledHasSecret ==
    \A u \in Users : users[u].totp_enabled => users[u].totp_secret # None

\* 2FA is on with the first secret although a second one was generated since and
\* a disable has completed: the enable's UPDATE came last
C10_Witness ==
    /\ users["admin"].totp_enabled
    /\ users["admin"].totp_secret = Some(1)
    /\ issued.secret = 2
    /\ \E r \in Reqs : Finished(r, "disable_2fa") /\ req[r].resp[1].status = 200
    /\ \E r \in Reqs : Finished(r, "enable_2fa") /\ req[r].resp[1].status = 200

-----------------------------------------------------------------------------
(* C11: verify_totp accepts a code generated for the secret at the time step of
   the call, at the step before and at the step after, rejects a code
   generated two or more steps away, and returns false when the secret or the
   code is empty. *)
C11_VerifyTotpWindow ==
    \A r \in Reqs :
        Finished(r, "verify_totp")
        => IF req[r].token = None \/ req[r].code = None
           THEN ~req[r].verified
           ELSE LET step == req[r].at \div TOTP_INTERVAL
                    gen  == req[r].code[1][2]
                IN  req[r].code[1][1] = req[r].token[1]
                    => (req[r].verified <=> gen \in {step - 1, step, step + 1})

\* a code of the next step was accepted at the last second of a step
C11_Witness ==
    /\ Finished("r1", "verify_totp")
    /\ req["r1"].verified
    /\ req["r1"].at = 2 * TOTP_INTERVAL - 1
    /\ req["r1"].token = Some(2)
    /\ req["r1"].code = Some(<<2, 2>>)

(* C12: get_current_user returns a session for the presented token exactly
   when a sessions row has that token, now < expires_at and the owning account
   is active, and then it is that row; with no token, an unknown token, an
   expired session or a session of an inactive account the result is the one
   None, and the caller answers all four alike. *)
C12_CurrentUserIffValid ==
    [][ \A r \in Reqs :
          ( req'[r] # req[r] /\ req'[r].pc = "done" /\ req'[r].op = "admin_index" )
          => LET valid == IF req'[r].token = None THEN {}
                          ELSE {x \in sessions : /\ x.session_token = req'[r].token[1]
                                                 /\ now < x.expires_at
                                                 /\ users[x.user_id].is_active}
             IN  IF valid = {}
                 THEN /\ req'[r].session = None
                      /\ req'[r].resp = Some(Response(302, [location |-> "/admin/login"]))
                 ELSE /\ req'[r].session # None
                      /\ \E x \in valid : /\ req'[r].session[1].id = x.id
                                          /\ req'[r].session[1].user_id = x.user_id
                                          /\ req'[r].session[1].expires_at = x.expires_at
      ]_vars

\* the token of an unexpired session gave None: its account was deactivated
C12_Witness ==
    /\ Finished("r1", "admin_index")
    /\ req["r1"].token = Some(1)
    /\ req["r1"].session = None
    /\ \E x \in sessions : /\ x.session_token = 1
                           /\ req["r1"].at < x.expires_at
                           /\ ~users[x.user_id].is_active

(* C13: an account has at most one redeemable reset token: once
   generate_password_reset_token has run again for the account, the token
   e-mailed before no longer matches in get_user_by_reset_token, although its
   own expiry has not passed. *)
C13_SingleActiveToken ==
    /\ \A u \in Users :
          Cardinality({t \in 1..issued.reset :
                          /\ get_user_by_reset_token(t) # None
                          /\ get_user_by_reset_token(t)[1].id = u}) <= 1
    /\ \A m1 \in outbox, m2 \in outbox :
          (m1.to = m2.to /\ m1.token < m2.token)
          => get_user_by_reset_token(m1.token) = None

\* two tokens were mailed to the admin within the hour and none was redeemed:
\* the second matches, the first does not
C13_Witness ==
    /\ now < PASSWORD_RESET_EXPIRY
    /\ history.redeemed = {}
    /\ {m.token : m \in {x \in outbox : x.to = EmailOf["admin"]}} = {1, 2}
    /\ get_user_by_reset_token(1) = None
    /\ get_user_by_reset_token(2) # None
    /\ get_user_by_reset_token(2)[1].id = "admin"

(* C14: api_reset_password with a matching unexpired token and a password of
   at least PASSWORD_MIN_LENGTH characters succeeds: it replaces the account's
   password_hash with the hash of the new password, sets password_reset_token
   and password_reset_expires to null, and deletes every session of the
   account. *)
C14_ResetReplacesAndRevokes ==
    [][ \A r \in Reqs :
          /\ ( /\ Free(r) /\ req'[r] # req[r] /\ req'[r].op = "reset_password"
               /\ req'[r].token # None /\ req'[r].password # None
               /\ Len(req'[r].password[1]) >= PASSWORD_MIN_LENGTH
               /\ \E u \in Users : /\ users[u].password_reset_token = req'[r].token
                                   /\ users[u].password_reset_expires # None
                                   /\ now < users[u].password_reset_expires[1]
                                   /\ users[u].is_active )
             => /\ req'[r].pc = "reset_update_password"
                /\ req'[r].user # None
                /\ users[req'[r].user[1].id].password_reset_token = req'[r].token
          /\ ( req[r].pc = "reset_update_password" /\ req'[r] # req[r] )
             => LET u == req[r].user[1].id
                IN  /\ users'[u].password_hash = hash_password(req[r].password[1])
                    /\ verify_password(req[r].password[1], users'[u].password_hash)
                    /\ users'[u].password_reset_token = None
                    /\ users'[u].password_reset_expires = None
                    /\ req'[r].pc = "reset_delete_sessions"
          /\ ( req[r].pc = "reset_delete_sessions" /\ req'[r] # req[r] )
             => LET u == req[r].user[1].id
                IN  /\ {x \in sessions' : x.user_id = u} = {}
                    /\ users'[u].password_hash = hash_password(req[r].password[1])
                    /\ users'[u].password_reset_token = None
                    /\ users'[u].password_reset_expires = None
                    /\ req'[r].pc = "done"
                    /\ req'[r].resp[1].status = 200
      ]_vars

\* the admin redeemed the second token mailed to them while logged in twice: the
\* new password is in place, the token is gone and so are both sessions
C14_Witness ==
    /\ Finished("r1", "reset_password")
    /\ req["r1"].resp[1].status = 200
    /\ req["r1"].token = Some(2)
    /\ req["r1"].user[1].id = "admin"
    /\ verify_password(NewPassword, users["admin"].password_hash)
    /\ users["admin"].password_reset_token = None
    /\ issued.session = 2
    /\ sessions = {}

-----------------------------------------------------------------------------
(* C15: a lock is inert once now >= locked_until, with no write to the
   account: a login is refused as locked exactly when the row it read has
   locked_until set and now < locked_until; a login with the right password to
   an account without 2FA whose lock is not in force goes on to set
   failed_login_attempts to 0 and locked_until to null. *)
C15_LockInertAfterExpiry ==
    [][ \A r \in Reqs :
          /\ ( /\ Free(r) /\ req'[r] # req[r] /\ req'[r].op = "login"
               /\ req'[r].user # None )
             => LET row == req'[r].user[1]
                    inForce == row.locked_until # None /\ now < row.locked_until[1]
                IN  /\ row = users[row.id]
                    /\ users' = users
                    /\ (req'[r].resp = Some(TemporarilyLocked)) <=> inForce
                    /\ ( /\ ~inForce
                         /\ row.password_hash = hash_password(req'[r].password[1])
                         /\ ~row.totp_enabled )
                       => req'[r].pc = "login_reset_attempts"
          /\ ( req[r].pc = "login_reset_attempts" /\ req'[r] # req[r] )
             => LET u == req[r].user[1].id
                IN  /\ users'[u].failed_login_attempts = 0
                    /\ users'[u].locked_until = None
                    /\ users'[u] = [users[u] EXCEPT !.failed_login_attempts = 0,
                                                    !.locked_until = None]
      ]_vars

\* a login at the very second the lock ran out succeeded, and cleared the
\* counter and the lock it had read
C15_Witness ==
    /\ Finished("r1", "login")
    /\ req["r1"].resp[1].status = 200
    /\ "cookie" \in DOMAIN req["r1"].resp[1].body
    /\ req["r1"].user[1].locked_until = Some(LOCKOUT_DURATION)
    /\ req["r1"].user[1].failed_login_attempts = MAX_LOGIN_ATTEMPTS
    /\ users["admin"].failed_login_attempts = 0
    /\ users["admin"].locked_until = None

(* C16: api_verify_2fa with a code that is refused for an account with 2FA
   answers 401 'Invalid verification code', creates no session and leaves the
   users table, failed_login_attempts and locked_until with it, as it was,
   however many codes were refused before. *)
C16_BadCodeTouchesNothing ==
    [][ \A r \in Reqs :
          ( /\ Free(r) /\ req'[r] # req[r] /\ req'[r].op = "verify_2fa"
            /\ req'[r].username # None /\ req'[r].code # None
            /\ req'[r].username[1] \in Users
            /\ users[req'[r].username[1]].is_active
            /\ users[req'[r].username[1]].totp_enabled
            /\ \A i \in -1..1 :
                  req'[r].code[1] # <<users[req'[r].username[1]].totp_secret[1],
                                      (now \div TOTP_INTERVAL) + i>> )
          => /\ req'[r].pc = "done"
             /\ req'[r].resp = Some(Error(401, "Invalid verification code"))
             /\ sessions' = sessions
             /\ issued' = issued
             /\ users' = users
      ]_vars

\* MAX_LOGIN_ATTEMPTS codes were refused, the last one just now, and the account
\* is as a fresh one: no failed attempt counted, no lock, no session
C16_Witness ==
    /\ Finished("r1", "verify_2fa")
    /\ req["r1"].resp = Some(Error(401, "Invalid verification code"))
    /\ history.badcodes["admin"] = MAX_LOGIN_ATTEMPTS
    /\ users["admin"].failed_login_attempts = 0
    /\ users["admin"].locked_until = None
    /\ sessions = {}

(* C17: a login with the right password to an account with totp_enabled whose
   lock is not in force returns requires_2fa and leaves failed_login_attempts
   and locked_until as they were; on such an account they are set back to 0
   and null only by api_verify_2fa, after the second factor succeeded. *)
C17_NoResetBeforeSecondFactor ==
    [][ /\ \A r \in Reqs :
             ( /\ Free(r) /\ req'[r] # req[r] /\ req'[r].op = "login"
               /\ req'[r].user # None
               /\ req'[r].user[1].totp_enabled
               /\ req'[r].user[1].password_hash = hash_password(req'[r].password[1])
               /\ ~LockInForce(req'[r].user[1], now) )
             => /\ req'[r].pc = "done"
                /\ "requires_2fa" \in DOMAIN req'[r].resp[1].body
                /\ users' = users
        /\ \A u \in Users :
             ( /\ users[u].totp_enabled
               /\ users'[u] # users[u]
               /\ \/ users'[u].failed_login_attempts < users[u].failed_login_attempts
                  \/ users'[u].locked_until = None /\ users[u].locked_until # None )
             => \E r \in Reqs : /\ req[r].op = "verify_2fa"
                                 /\ req[r].pc = "v2fa_reset_attempts"
                                 /\ req[r].verified
                                 /\ req[r].user[1].id = u
      ]_vars

\* requires_2fa was returned and the four failed attempts are still counted
C17_Witness ==
    /\ Finished("r1", "login")
    /\ req["r1"].resp = Some(Response(200, [requires_2fa |-> TRUE, user_id |-> "admin"]))
    /\ req["r1"].user[1].failed_login_attempts = MAX_LOGIN_ATTEMPTS - 1
    /\ users["admin"].failed_login_attempts = MAX_LOGIN_ATTEMPTS - 1
    /\ req["r1"].at = now

-----------------------------------------------------------------------------
(* C18: api_reset_password with a password of fewer than PASSWORD_MIN_LENGTH
   (8) characters answers 'Password must be at least 8 characters' whether the
   token matches or not, and leaves every account (token, expiry and password
   hash) and every session as it was. *)
C18_ShortPasswordBeforeLookup ==
    [][ \A r \in Reqs :
          ( /\ Free(r) /\ req'[r] # req[r] /\ req'[r].op = "reset_password"
            /\ req'[r].token # None /\ req'[r].password # None
            /\ Len(req'[r].password[1]) < 8 )
          => /\ req'[r].pc = "done"
             /\ req'[r].resp = Some(Error(400, "Password must be at least 8 characters"))
             /\ req'[r].user = None
             /\ users' = users
             /\ sessions' = sessions
      ]_vars

\* a short password was refused with a token that still matches, and one with a
\* token that was never issued would have got the same answer
C18_Witness ==
    /\ Finished("r1", "reset_password")
    /\ req["r1"].password = Some(ShortPassword)
    /\ req["r1"].resp = Some(Error(400, "Password must be at least 8 characters"))
    /\ req["r1"].token # None
    /\ get_user_by_reset_token(req["r1"].token[1]) # None
    /\ get_user_by_reset_token(0) = None

(* C19: api_verify_2fa for an account with totp_enabled and a code verify_totp
   accepts creates a session of the account, then sets failed_login_attempts
   to 0 and locked_until to null, and answers with that session's cookie. *)
C19_SecondFactorCompletes ==
    [][ \A r \in Reqs :
          /\ ( /\ Free(r) /\ req'[r] # req[r] /\ req'[r].op = "verify_2fa"
               /\ req'[r].username # None /\ req'[r].code # None
               /\ req'[r].username[1] \in Users
               /\ users[req'[r].username[1]].is_active
               /\ users[req'[r].username[1]].totp_enabled
               /\ \E i \in -1..1 :
                     req'[r].code[1] = <<users[req'[r].username[1]].totp_secret[1],
                                         (now \div TOTP_INTERVAL) + i>> )
             => /\ req'[r].pc = "v2fa_create_session"
                /\ req'[r].user = Some(users[req'[r].username[1]])
          /\ ( req[r].pc = "v2fa_create_session" /\ req'[r] # req[r] )
             => /\ \E x \in sessions' \ sessions :
                      /\ sessions' = sessions \cup {x}
                      /\ x.user_id = req[r].user[1].id
                      /\ x.expires_at = now + SESSION_LIFETIME
                      /\ req'[r].token = Some(x.session_token)
                      /\ \A y \in sessions : y.session_token # x.session_token
                /\ req'[r].pc = "v2fa_reset_attempts"
          /\ ( req[r].pc = "v2fa_reset_attempts" /\ req'[r] # req[r] )
             => LET u == req[r].user[1].id
                IN  /\ users'[u].failed_login_attempts = 0
                    /\ users'[u].locked_until = None
                    /\ \A v \in Users \ {u} : users'[v] = users[v]
                    /\ req'[r].pc = "done"
                    /\ req'[r].resp[1].status = 200
                    /\ req'[r].resp[1].body.cookie = req[r].token[1]
                    /\ \E x \in sessions' : x.session_token = req[r].token[1] /\ x.user_id = u
      ]_vars

\* the second factor was completed while the account's lock was in force: the
\* session exists, and the counter and the lock are cleared
C19_Witness ==
    /\ Finished("r1", "verify_2fa")
    /\ req["r1"].resp[1].status = 200
    /\ req["r1"].user[1].failed_login_attempts = MAX_LOGIN_ATTEMPTS
    /\ LockInForce(req["r1"].user[1], req["r1"].at)
    /\ users["admin"].failed_login_attempts = 0
    /\ users["admin"].locked_until = None
    /\ \E x \in sessions : x.user_id = "admin" /\ x.session_token = req["r1"].token[1]

(* C20: the write of a failed password verification on an account whose lock
   is not in force sets failed_login_attempts to the old value plus 1; when
   the new value is >= MAX_LOGIN_ATTEMPTS the same update sets locked_until to
   now + LOCKOUT_DURATION, otherwise it sets locked_until to null and the
   answer reports MAX_LOGIN_ATTEMPTS minus the new value as attempts
   remaining, a number from 1 to MAX_LOGIN_ATTEMPTS - 1. *)
C20_FailedAttemptWrite ==
    [][ \A r \in Reqs :
          ( req[r].pc = "login_update_attempts" /\ req'[r] # req[r] )
          => LET u   == req[r].user[1].id
                 new == users[u].failed_login_attempts + 1
             IN  /\ users'[u].failed_login_attempts = new
                 /\ users'[u] = [users[u] EXCEPT !.failed_login_attempts = new,
                                                 !.locked_until = users'[u].locked_until]
                 /\ \A v \in Users \ {u} : users'[v] = users[v]
                 /\ req'[r].pc = "done"
                 /\ IF new >= 5
                    THEN /\ users'[u].locked_until = Some(now + 30 * 60)
                         /\ req'[r].resp = Some(Error(401,
                                "Account locked due to too many failed attempts."))
                    ELSE /\ users'[u].locked_until = None
                         /\ \E remaining \in 1..4 :
                               /\ remaining = 5 - new
                               /\ req'[r].resp = Some(Error(401,
                                     "Invalid username or password. " \o ToString(remaining)
                                     \o " attempts remaining."))
      ]_vars

\* the fourth wrong password in a row: one attempt is reported as remaining
C20_Witness ==
    /\ Finished("r1", "login")
    /\ WrongPasswordLogin("r1")
    /\ req["r1"].at = now
    /\ users["admin"].failed_login_attempts = 4
    /\ users["admin"].locked_until = None
    /\ req["r1"].resp = Some(Error(401, "Invalid username or password. 1 attempts remaining."))

-----------------------------------------------------------------------------
(* C21: an account's totp_enabled goes from true to false only in the UPDATE of
   api_disable_2fa, and whenever it does the account's totp_secret is null
   afterwards; no other operation, api_setup_2fa in particular, takes an
   account out of the Enabled state. *)
C21_EnabledUntilDisabled ==
    [][ \A u \in Users :
          ( users[u].totp_enabled /\ ~users'[u].totp_enabled )
          => /\ \E r \in Reqs : /\ req[r].op = "disable_2fa"
                                 /\ req[r].pc = "disable_store"
                                 /\ req[r].session[1].user_id = u
             /\ users'[u].totp_secret = None
      ]_vars

(* C22: a reset token is single-use under concurrency: of two
   api_reset_password calls that present the same token at most one gets past
   the lookup, changes the password and returns success, under every
   interleaving of their lookups and writes. *)
Redeemed(r) ==
    /\ req[r].op = "reset_password"
    /\ \/ req[r].pc = "reset_delete_sessions"
       \/ req[r].pc = "done" /\ req[r].resp[1].status = 200

C22_TokenSingleUse ==
    \A r \in Reqs, q \in Reqs :
        (r # q /\ Redeemed(r) /\ Redeemed(q)) => req[r].token # req[q].token

(* C30: once api_reset_password has returned success for an account and its
   password is the one that reset stored, no session of the account resolves
   that a login obtained with the password the reset replaced, a login that
   overlapped the reset included. *)
C30_NoSessionOfOldPassword ==
    \A r \in Reqs, q \in Reqs :
        ( /\ Finished(r, "reset_password")
          /\ req[r].resp[1].status = 200
          /\ users[req[r].user[1].id].password_hash = hash_password(req[r].password[1])
          /\ Finished(q, "login")
          /\ req[q].resp[1].status = 200
          /\ "cookie" \in DOMAIN req[q].resp[1].body
          /\ req[q].user[1].id = req[r].user[1].id
          /\ req[q].user[1].password_hash = req[r].user[1].password_hash
          /\ req[q].user[1].password_hash # hash_password(req[r].password[1]) )
        => get_session_by_token(req[q].resp[1].body.cookie) = None

-----------------------------------------------------------------------------
(* C23: the failed attempt that brings failed_login_attempts to the threshold
   returns the Locked result, the one a login to an already locked account
   gets, and carries no attempts-remaining information. *)
C23_NewlyLockedIsLocked ==
    \A r \in Reqs :
        ( /\ WrongPasswordLogin(r)
          /\ req[r].user[1].failed_login_attempts + 1 >= MAX_LOGIN_ATTEMPTS )
        => req[r].resp = Some(TemporarilyLocked)

-----------------------------------------------------------------------------
(* Logins and second-factor completions of one account, two requests interleaved *)

\* {user_id, code} of POST /api/auth/verify-2fa with the authenticator's current code
ConcVerify2faInputs == {<<Some("admin"), Some(TotpAt(SeededSecret, now, 0))>>}

\* wrong passwords for the account, and completions with the current code
NextLockConc ==
    \/ \E r \in Reqs : StartLogin(r, Some("admin"), Some(WrongPassword))
    \/ \E r \in Reqs : LoginUpdateAttempts(r)
    \/ \E r \in Reqs, in \in ConcVerify2faInputs : StartVerify2fa(r, in[1], in[2])
    \/ \E r \in Reqs : Verify2faCreateSession(r)
    \/ \E r \in Reqs : Verify2faResetAttempts(r)
    \/ Tick(LOCKOUT_DURATION)

\* Init with the admin's second factor enrolled
InitEnrolled == Init /\ users["admin"].totp_enabled

SpecLockConc == InitEnrolled /\ [][NextLockConc]_vars

(* C24: in every state reachable by interleaved login attempts, 2FA completions
   and lock expiries from a zero counter and no lock, an account's locked_until
   is non-null exactly when its failed_login_attempts has reached
   MAX_LOGIN_ATTEMPTS. *)
C24_LockIffThreshold ==
    \A u \in Users :
        (users[u].locked_until # None)
        <=> (users[u].failed_login_attempts >= MAX_LOGIN_ATTEMPTS)

\* A failed attempt that read the account before the lock was written has written
\* after it, and a second-factor completion is about to reset the counter.
C24_Witness ==
    /\ users["admin"].failed_login_attempts = MAX_LOGIN_ATTEMPTS - 1
    /\ users["admin"].locked_until = None
    /\ history.streak["admin"] > MAX_LOGIN_ATTEMPTS
    /\ \E r \in Reqs : req[r].pc = "v2fa_reset_attempts"

-----------------------------------------------------------------------------
(* C25: no session is created for an account while its lock is in force,
   whether api_login or api_verify_2fa issues it. *)
C25_NoSessionWhileLocked ==
    [][ \A s \in sessions' \ sessions : ~LockInForce(users[s.user_id], now) ]_vars

-----------------------------------------------------------------------------
(* C26: api_verify_2fa creates a session only for an account for which an
   authenticate_user call has verified the password and returned requires_2fa;
   an account id with a valid code and no preceding password verification gets
   no session. *)
C26_SecondFactorAfterPassword ==
    [][ \A r \in Reqs :
          ( req[r].pc = "v2fa_create_session" /\ sessions' # sessions
            /\ req'[r].pc = "v2fa_reset_attempts" )
          => req[r].user[1].id \in history.awaiting
      ]_vars

-----------------------------------------------------------------------------
(* Sessions in use over their lifetime, one request at a time *)

NextSessionUse ==
    \/ StartLogin("r1", Some("admin"), Some(InitialPassword["admin"]))
    \/ LoginResetAttempts("r1")
    \/ LoginCreateSession("r1")
    \/ \E c \in CookieInputs : AdminIndex("r1", c)
    \/ Tick(SESSION_LIFETIME \div 2)
    \/ Tick(SESSION_LIFETIME)

SpecSessionUse == InitFresh /\ [][NextSessionUse]_vars

(* C27: resolving a session changes only its last_activity and never its
   expires_at, which create_user_session set to the creation time plus
   SESSION_LIFETIME; so no session resolves at or after its creation time plus
   SESSION_LIFETIME, however often it is used. *)
C27_FixedExpiry ==
    [][ /\ \A s \in sessions' :
             IF \E o \in sessions : o.id = s.id
             THEN \E o \in sessions :
                      /\ o.id = s.id
                      /\ [s EXCEPT !.last_activity = o.last_activity] = o
                      /\ s.last_activity \in {o.last_activity, now}
             ELSE s.expires_at = now + SESSION_LIFETIME
        /\ \A r \in Reqs :
             ( Finished(r, "admin_index")' /\ req'[r].session # None )
             => req'[r].at < req'[r].session[1].expires_at
      ]_vars

\* A session used half-way through its lifetime is refused once the lifetime is over.
C27_Witness ==
    \E s \in sessions :
        /\ s.last_activity > s.expires_at - SESSION_LIFETIME
        /\ now >= s.expires_at
        /\ Finished("r1", "admin_index")
        /\ req["r1"].token = Some(s.session_token)
        /\ req["r1"].at = now
        /\ req["r1"].session = None

-----------------------------------------------------------------------------
(* C28: while an account's lock is in force, no authenticate_user call that
   fails password verification, a concurrent one that read the account before
   the lock was written included, sets locked_until to null or lowers
   failed_login_attempts. *)
C28_LockSurvivesFailedAttempts ==
    [][ \A r \in Reqs :
          ( /\ req[r].pc = "login_update_attempts"
            /\ req'[r].pc = "done"
            /\ LockInForce(users[req[r].user[1].id], now) )
          => /\ users'[req[r].user[1].id].locked_until # None
             /\ users'[req[r].user[1].id].failed_login_attempts
                  >= users[req[r].user[1].id].failed_login_attempts
      ]_vars

-----------------------------------------------------------------------------
\* a finished wrong-password login that found a lock whose time had passed
AfterExpiredLock(r) ==
    /\ WrongPasswordLogin(r)
    /\ req[r].user[1].locked_until # None

(* C29: lock expiry does not reset failed_login_attempts: the first
   wrong-password login after a lock has expired, with no successful login in
   between, counts on from the stored value, locks the account again for a full
   LOCKOUT_DURATION and reports the lock, with no attempts remaining. *)
C29_RelockAfterExpiry ==
    \A r \in Reqs :
        AfterExpiredLock(r)
        => /\ users[req[r].user[1].id].failed_login_attempts
                = req[r].user[1].failed_login_attempts + 1
           /\ req[r].user[1].failed_login_attempts >= MAX_LOGIN_ATTEMPTS
           /\ users[req[r].user[1].id].locked_until = Some(req[r].at + LOCKOUT_DURATION)
           /\ req[r].resp = Some(Error(401, "Account locked due to too many failed attempts."))

\* The admin, locked at time 0, was locked again by one wrong password at LOCKOUT_DURATION.
C29_Witness ==
    /\ AfterExpiredLock("r1")
    /\ req["r1"].at = LOCKOUT_DURATION
    /\ users["admin"].failed_login_attempts = MAX_LOGIN_ATTEMPTS + 1
    /\ users["admin"].locked_until = Some(2 * LOCKOUT_DURATION)

====
